---- MODULE Spec2Model ----
(***************************************************************************)
(* A model of the marketing dashboard: the configuration loader, the       *)
(* cached BigQuery client, the cached query executor, the four cached data *)
(* loaders, and the script run of Main.py (show_data_summary, main,        *)
(* create_sidebar, create_dashboard) executed by several browser sessions  *)
(* against one server process.                                             *)
(*                                                                         *)
(* The Streamlit decorators are modelled by what they do to the program:   *)
(* st.cache_data / st.cache_resource memoize the return value per argument *)
(* tuple in a store shared by all sessions, together with the st.* element *)
(* calls made while the value was computed, which are replayed to the      *)
(* caller on every cache hit; an entry with ttl=T is dropped once its age  *)
(* reaches T; a call of a cached function is computed under a per-key lock *)
(* and is therefore one atomic step here.                                  *)
(***************************************************************************)
EXTENDS Integers, Sequences, FiniteSets, TLC

VARIABLES
    configFile,     \* config/bigquery_config.json as found on disk
    wh,             \* warehouse contents: rows each loader query selects
    clock,          \* seconds since the server started
    dataCache,      \* st.cache_data store: config, query results, loader results
    resourceCache,  \* st.cache_resource store: the client handle
    nextHandle,     \* number of client objects constructed so far
    epoch,          \* history since the last clear of the resource cache
    last,           \* what the cached functions did during the last step
    pc,             \* per session: position in the script run
    click,          \* per session: the button whose click started the run
    buttons,        \* per session: sidebar buttons are on the page
    ss,             \* per session: st.session_state
    run,            \* per session: locals of the current script run
    customers,      \* the rows of the customer_metrics subquery
    scored,         \* one row of the rfm_analysis subquery
    frame,          \* the dataframe given to calculate_business_metrics
    query_times,    \* PerformanceTracker.query_times
    health,         \* the run of the health check script
    monitor         \* a function decorated with monitor_performance

vars == <<configFile, wh, clock, dataCache, resourceCache, nextHandle, epoch,
          last, pc, click, buttons, ss, run,
          customers, scored, frame, query_times, health, monitor>>

\* the state of the dashboard server (all of it but `last`), and the state
\* of the parts that run apart from it
server == <<configFile, wh, clock, dataCache, resourceCache, nextHandle, epoch,
            pc, click, buttons, ss, run>>

apart == <<customers, scored, frame, query_times, health, monitor>>

-----------------------------------------------------------------------------
(* Bounds of the model *)

MaxTicks == 4
MaxHandles == 2
MaxTables == 2
MaxCustomers == 3
MaxMetric == 2
MaxRows == 2
MaxCalls == 12

(* Program constants *)

TTL_QUERY == 3600
TTL_LOADER == 1800
NTILES == 5
KEEP_LAST == 10

TickLen == TTL_LOADER \div 2

\* the browser sessions connected to the server
Sessions == {1, 2}

Loaders == {"customer", "order", "review", "geo"}

\* create_dashboard calls the loaders in this order
LoaderOrder == <<"customer", "order", "review", "geo">>

\* the queries sent through execute_query: one per loader, and the
\* SELECT * of load_table_data
Queries == Loaders \cup {"table"}

\* the statements get_order_analytics_data sends through the client, in
\* the order of the code; each is named after the dataset it fills
OrderStatements == <<"order_data", "monthly_data", "category_data", "delivery_data">>

Range(f) == {f[i] : i \in DOMAIN f}

\* the checks of the health check script, in the order main() runs them;
\* each sends one aggregate statement, named here after the check
HealthChecks ==
    <<"test_order_analytics", "test_review_analytics", "test_geographic_analytics">>

\* every statement the warehouse is asked to run
Statements == Queries \cup Range(OrderStatements) \cup Range(HealthChecks)

\* a geographic query that writes
QueryKindWriting(l) == IF l = "geo" THEN "DELETE" ELSE "SELECT"

\* the statement each loader sends: every one is a WITH ... SELECT / SELECT
QueryKind(l) == "SELECT"

\* what the warehouse holds after running a statement of query l
WarehouseApply(w, l) ==
    IF QueryKind(l) = "SELECT" THEN w ELSE [w EXCEPT ![l] = 0]

-----------------------------------------------------------------------------
(* Values *)

None == 0

EmptyDict == [f \in {} |-> ""]

\* pl.DataFrame(): no rows; q/exec/by record which execution produced it
\* ("none", -1, 0 when no warehouse query stands behind it)
EmptyDF == [q |-> "none", rows |-> 0, exec |-> -1, by |-> 0]

IsEmpty(df) == df.rows = 0

RequiredFields == {"project_id", "dataset_id"}

TableNames == {"fact_orders", "dim_customer"}

RECURSIVE SeqsUpTo(_, _)
SeqsUpTo(S, n) ==
    IF n = 0 THEN {<<>>}
    ELSE LET shorter == SeqsUpTo(S, n - 1)
         IN shorter \cup {Append(t, x) : t \in {u \in shorter : Len(u) = n - 1}, x \in S}

TableEntries == {[table_name |-> n] : n \in TableNames}

\* a JSON object with the given required fields and, optionally, a table list
ConfigObject(fields, tables) ==
    [f \in fields \cup (IF tables = <<>> THEN {} ELSE {"recommended_tables"}) |->
        IF f = "recommended_tables" THEN tables[1] ELSE f]

ConfigObjects ==
    {ConfigObject(fs, ts) :
        fs \in SUBSET RequiredFields,
        ts \in {<<>>} \cup {<<t>> : t \in SeqsUpTo(TableEntries, MaxTables)}}

ConfigFiles ==
    {[kind |-> "missing", obj |-> EmptyDict], [kind |-> "invalid", obj |-> EmptyDict]}
    \cup {[kind |-> "json", obj |-> o] : o \in ConfigObjects}

-----------------------------------------------------------------------------
(* The cached functions.  Each takes the shared state st = [dc, rc, nh, w]  *)
(* (data cache, resource cache, handles constructed, warehouse) and returns *)
(* its value, the st.* messages shown during the call, the external events  *)
(* of the call in order, whether it raised, and the shared state after it.  *)

NoClientCall == [invoked |-> FALSE, hit |-> FALSE, ret |-> None, ev |-> <<>>]

NoQueryCall ==
    [invoked |-> FALSE, hit |-> FALSE, key |-> "none", fail |-> "none",
     raised |-> FALSE, ret |-> EmptyDF, msgs |-> {}, ev |-> <<>>]

NoConfigCall ==
    [invoked |-> FALSE, hit |-> FALSE, ret |-> EmptyDict, msgs |-> {}, raised |-> FALSE]

NoTablesCall == [invoked |-> FALSE, ret |-> <<>>, raised |-> FALSE]

NoLoaderCall ==
    [invoked |-> FALSE, hit |-> FALSE, name |-> "none", ret |-> EmptyDF,
     ev |-> <<>>, raised |-> FALSE]

\* get_order_analytics_data returns None or a dict of dataframes
NoneResult == [isNone |-> TRUE, dict |-> EmptyDict]

\* oq: the outcome each statement of the call had or would have had
NoAnalyticsCall ==
    [invoked |-> FALSE, hit |-> FALSE, client |-> None, ret |-> NoneResult,
     msgs |-> {}, ev |-> <<>>, raised |-> FALSE,
     oq |-> [q \in Range(OrderStatements) |-> "ok"]]

\* a call of a function decorated with monitor_performance: ret is <<what
\* the wrapper did>>
NoMonitorCall == [invoked |-> FALSE, args |-> 0, ret |-> <<>>]

\* seg: the rows a run of the segmentation query returned, <<rows>>;
\* segment: the value of its CASE for one row, <<name>>;
\* metrics: the dict calculate_business_metrics returned, <<dict>>
NoCall ==
    [q |-> NoQueryCall, c |-> NoClientCall, cfg |-> NoConfigCall,
     tables |-> NoTablesCall, l |-> NoLoaderCall, oa |-> NoAnalyticsCall,
     seg |-> <<>>, segment |-> <<>>, metrics |-> <<>>, mp |-> NoMonitorCall]

\* a ttl cache that still serves an entry at the moment its age reaches the ttl
FreshInclusive(entry, ttl) == entry # <<>> /\ clock - entry[1].at <= ttl

\* a ttl cache entry is served while its age is below the ttl
Fresh(entry, ttl) == entry # <<>> /\ clock - entry[1].at < ttl

\* load_config with the validation loop stopping after the first field
load_config_first_field(file) ==
    IF file.kind = "missing"
    THEN [ret |-> EmptyDict, msgs |-> {"config_not_found"}, raised |-> FALSE]
    ELSE IF file.kind = "invalid"
    THEN [ret |-> EmptyDict, msgs |-> {"config_invalid_json"}, raised |-> FALSE]
    ELSE IF "project_id" \notin DOMAIN file.obj
    THEN [ret |-> EmptyDict, msgs |-> {"config_error"}, raised |-> FALSE]
    ELSE [ret |-> file.obj, msgs |-> {}, raised |-> FALSE]

\* load_config: the body, without the cache
load_config(file) ==
    IF file.kind = "missing"
    THEN [ret |-> EmptyDict, msgs |-> {"config_not_found"}, raised |-> FALSE]
    ELSE IF file.kind = "invalid"
    THEN [ret |-> EmptyDict, msgs |-> {"config_invalid_json"}, raised |-> FALSE]
    ELSE IF \E f \in RequiredFields : f \notin DOMAIN file.obj
    THEN [ret |-> EmptyDict, msgs |-> {"config_error"}, raised |-> FALSE]
    ELSE [ret |-> file.obj, msgs |-> {}, raised |-> FALSE]

\* @st.cache_data on load_config: no ttl, no arguments
CachedLoadConfig(st) ==
    IF st.dc.config # <<>>
    THEN [ret |-> st.dc.config[1].val, msgs |-> st.dc.config[1].msgs,
          ev |-> <<"load_config">>, raised |-> FALSE, hit |-> TRUE, st |-> st]
    ELSE LET Miss(r) ==
                [ret |-> r.ret, msgs |-> r.msgs,
                 ev |-> <<"load_config", "read_config">>,
                 raised |-> r.raised, hit |-> FALSE,
                 st |-> IF r.raised THEN st
                        ELSE [st EXCEPT !.dc.config =
                                 <<[val |-> r.ret, msgs |-> r.msgs]>>]]
         IN Miss(load_config(configFile))

\* get_bigquery_client with a handler that returns None without st.error
get_bigquery_client_silent(st, connOK) ==
    LET Body(c) ==
          IF c.ret = EmptyDict
          THEN [ret |-> None, msgs |-> c.msgs, ev |-> c.ev, st |-> c.st]
          ELSE IF connOK
          THEN [ret |-> c.st.nh + 1, msgs |-> c.msgs, ev |-> c.ev \o <<"connect">>,
                st |-> [c.st EXCEPT !.nh = c.st.nh + 1]]
          ELSE [ret |-> None, msgs |-> c.msgs, ev |-> c.ev \o <<"connect">>,
                st |-> c.st]
    IN Body(CachedLoadConfig(st))

\* get_bigquery_client: the body; connOK says whether default(), Client(...)
\* and the 'SELECT 1' test all succeed
get_bigquery_client(st, connOK) ==
    LET Body(c) ==
          IF c.ret = EmptyDict
          THEN [ret |-> None, msgs |-> c.msgs, ev |-> c.ev, st |-> c.st]
          ELSE IF connOK
          THEN [ret |-> c.st.nh + 1, msgs |-> c.msgs, ev |-> c.ev \o <<"connect">>,
                st |-> [c.st EXCEPT !.nh = c.st.nh + 1]]
          ELSE [ret |-> None, msgs |-> c.msgs \cup {"connect_failed"},
                ev |-> c.ev \o <<"connect">>, st |-> c.st]
    IN Body(CachedLoadConfig(st))

\* get_bigquery_client without @st.cache_resource
UncachedGetClient(st, connOK) ==
    LET Miss(r) ==
          [ret |-> r.ret, msgs |-> r.msgs, ev |-> r.ev, st |-> r.st,
           cc |-> [invoked |-> TRUE, hit |-> FALSE, ret |-> r.ret, ev |-> r.ev]]
    IN Miss(get_bigquery_client(st, connOK))

\* a resource cache that keeps client handles and forgets a None
CachedGetClientHandlesOnly(st, connOK) ==
    IF st.rc # <<>>
    THEN [ret |-> st.rc[1].val, msgs |-> st.rc[1].msgs, ev |-> <<>>, st |-> st,
          cc |-> [invoked |-> TRUE, hit |-> TRUE, ret |-> st.rc[1].val, ev |-> <<>>]]
    ELSE LET Miss(r) ==
                [ret |-> r.ret, msgs |-> r.msgs, ev |-> r.ev,
                 st |-> IF r.ret = None THEN r.st
                        ELSE [r.st EXCEPT !.rc = <<[val |-> r.ret, msgs |-> r.msgs]>>],
                 cc |-> [invoked |-> TRUE, hit |-> FALSE, ret |-> r.ret, ev |-> r.ev]]
         IN Miss(get_bigquery_client(st, connOK))

\* @st.cache_resource on get_bigquery_client
CachedGetClient(st, connOK) ==
    IF st.rc # <<>>
    THEN [ret |-> st.rc[1].val, msgs |-> st.rc[1].msgs, ev |-> <<>>, st |-> st,
          cc |-> [invoked |-> TRUE, hit |-> TRUE, ret |-> st.rc[1].val, ev |-> <<>>]]
    ELSE LET Miss(r) ==
                [ret |-> r.ret, msgs |-> r.msgs, ev |-> r.ev,
                 st |-> [r.st EXCEPT !.rc = <<[val |-> r.ret, msgs |-> r.msgs]>>],
                 cc |-> [invoked |-> TRUE, hit |-> FALSE, ret |-> r.ret, ev |-> r.ev]]
         IN Miss(get_bigquery_client(st, connOK))

\* a handler that lets the exception through
query_except_reraise(r) == r

\* a handler that sends the query once more
query_except_retry(r) ==
    [r EXCEPT !.ret = [r.ret EXCEPT !.rows = 0],
              !.msgs = r.msgs \cup {"query_error"},
              !.ev = Append(r.ev, "query"),
              !.raised = FALSE]

\* execute_query, lines 83-86: the handler of the try block.  r is the call
\* as it stood when the exception was raised
query_except(r) ==
    [r EXCEPT !.ret = [r.ret EXCEPT !.rows = 0],
              !.msgs = r.msgs \cup {"query_error"},
              !.raised = FALSE]

\* execute_query: the body.  q is the (query, query_name) pair of loader q,
\* s the calling session, env the outcome of the external calls:
\* env.conn (the connection succeeds) and env.q in {"ok", "raise", "convert"}
\* (the warehouse call raises; pl.from_pandas raises)
execute_query(q, s, st, env) ==
    LET Query(issued) ==
          IF env.q = "raise"
          THEN query_except([issued EXCEPT !.ev = Append(@, "query_failed"),
                                           !.fail = "query", !.raised = TRUE])
          ELSE IF issued.ret.rows = 0
          THEN [issued EXCEPT !.msgs = @ \cup {"no_data"}]
          ELSE IF env.q = "convert"
          THEN query_except([issued EXCEPT !.fail = "convert", !.raised = TRUE])
          ELSE issued
        Body(c) ==
          IF c.ret = None
          THEN [ret |-> EmptyDF, msgs |-> c.msgs, ev |-> c.ev, raised |-> FALSE,
                st |-> c.st, fail |-> "client", cc |-> c.cc]
          ELSE Query([ret |-> [q |-> q, rows |-> c.st.w[q], exec |-> clock, by |-> s],
                      msgs |-> c.msgs, ev |-> c.ev \o <<"query">>, raised |-> FALSE,
                      st |-> [c.st EXCEPT !.w = WarehouseApply(c.st.w, q)],
                      fail |-> "none", cc |-> c.cc])
    IN Body(CachedGetClient(st, env.conn))

\* a cache on execute_query that stores results and forgets failures
CachedExecuteQueryResultsOnly(q, s, st, env) ==
    LET Hit(e) ==
          [ret |-> e.val, msgs |-> e.msgs, ev |-> <<>>, raised |-> FALSE,
           st |-> st, cc |-> NoClientCall,
           qc |-> [invoked |-> TRUE, hit |-> TRUE, key |-> q, fail |-> "none",
                   raised |-> FALSE, ret |-> e.val, msgs |-> e.msgs, ev |-> <<>>]]
        Miss(r) ==
          [ret |-> r.ret, msgs |-> r.msgs, ev |-> r.ev, raised |-> r.raised,
           st |-> IF r.raised \/ r.fail # "none" THEN r.st
                  ELSE [r.st EXCEPT !.dc.query[q] =
                           <<[val |-> r.ret, msgs |-> r.msgs, at |-> clock]>>],
           cc |-> r.cc,
           qc |-> [invoked |-> TRUE, hit |-> FALSE, key |-> q, fail |-> r.fail,
                   raised |-> r.raised, ret |-> r.ret, msgs |-> r.msgs, ev |-> r.ev]]
    IN IF Fresh(st.dc.query[q], TTL_QUERY)
       THEN Hit(st.dc.query[q][1])
       ELSE Miss(execute_query(q, s, st, env))

\* @st.cache_data(ttl=3600) on execute_query
CachedExecuteQuery(q, s, st, env) ==
    LET Hit(e) ==
          [ret |-> e.val, msgs |-> e.msgs, ev |-> <<>>, raised |-> FALSE,
           st |-> st, cc |-> NoClientCall,
           qc |-> [invoked |-> TRUE, hit |-> TRUE, key |-> q, fail |-> "none",
                   raised |-> FALSE, ret |-> e.val, msgs |-> e.msgs, ev |-> <<>>]]
        Miss(r) ==
          [ret |-> r.ret, msgs |-> r.msgs, ev |-> r.ev, raised |-> r.raised,
           st |-> IF r.raised THEN r.st
                  ELSE [r.st EXCEPT !.dc.query[q] =
                           <<[val |-> r.ret, msgs |-> r.msgs, at |-> clock]>>],
           cc |-> r.cc,
           qc |-> [invoked |-> TRUE, hit |-> FALSE, key |-> q, fail |-> r.fail,
                   raised |-> r.raised, ret |-> r.ret, msgs |-> r.msgs, ev |-> r.ev]]
    IN IF Fresh(st.dc.query[q], TTL_QUERY)
       THEN Hit(st.dc.query[q][1])
       ELSE Miss(execute_query(q, s, st, env))

\* a loader that builds and sends its query before it looks at the
\* configuration
LoaderBodyQueryFirst(l, s, st, env) ==
    LET Run(r, c) ==
          IF c.ret = EmptyDict
          THEN [r EXCEPT !.ret = EmptyDF, !.msgs = r.msgs \cup c.msgs,
                         !.ev = r.ev \o c.ev, !.st = c.st]
          ELSE [r EXCEPT !.msgs = r.msgs \cup c.msgs, !.ev = r.ev \o c.ev,
                         !.st = c.st]
        Body(r) == Run(r, CachedLoadConfig(r.st))
    IN Body(CachedExecuteQuery(l, s, st, env))

\* the body shared by get_customer_segments, get_order_performance,
\* get_review_insights, get_geographic_summary and load_table_data:
\* load_config(), `if not config: return pl.DataFrame()`, execute_query(...)
LoaderBody(l, s, st, env) ==
    LET Run(c, r) == [r EXCEPT !.msgs = c.msgs \cup r.msgs, !.ev = c.ev \o r.ev]
        Body(c) ==
          IF c.ret = EmptyDict
          THEN [ret |-> EmptyDF, msgs |-> c.msgs, ev |-> c.ev, raised |-> FALSE,
                st |-> c.st, cc |-> NoClientCall, qc |-> NoQueryCall]
          ELSE Run(c, CachedExecuteQuery(l, s, c.st, env))
    IN Body(CachedLoadConfig(st))

get_customer_segments(s, st, env) == LoaderBody("customer", s, st, env)
get_order_performance(s, st, env) == LoaderBody("order", s, st, env)
get_review_insights(s, st, env) == LoaderBody("review", s, st, env)
\* the geographic loader sending the customer query
get_geographic_summary_copied(s, st, env) == LoaderBody("customer", s, st, env)

get_geographic_summary(s, st, env) == LoaderBody("geo", s, st, env)

LoaderCall(l, s, st, env) ==
    CASE l = "customer" -> get_customer_segments(s, st, env)
      [] l = "order"    -> get_order_performance(s, st, env)
      [] l = "review"   -> get_review_insights(s, st, env)
      [] l = "geo"      -> get_geographic_summary(s, st, env)

\* @st.cache_data(ttl=1800) on the four loaders
CachedLoader(l, s, st, env) ==
    LET Hit(e) ==
          [ret |-> e.val, msgs |-> e.msgs, ev |-> <<>>, raised |-> FALSE,
           st |-> st, cc |-> NoClientCall, qc |-> NoQueryCall]
        Miss(r) ==
          IF r.raised THEN r
          ELSE [r EXCEPT !.st.dc.loader[l] =
                   <<[val |-> r.ret, msgs |-> r.msgs, at |-> clock]>>]
    IN IF Fresh(st.dc.loader[l], TTL_LOADER)
       THEN Hit(st.dc.loader[l][1])
       ELSE Miss(LoaderCall(l, s, st, env))

\* load_table_data(table_name, limit), for one table and limit
load_table_data(s, st, env) == LoaderBody("table", s, st, env)

\* @st.cache_data(ttl=3600) on load_table_data
CachedLoadTableData(s, st, env) ==
    LET Hit(e) ==
          [ret |-> e.val, msgs |-> e.msgs, ev |-> <<>>, raised |-> FALSE,
           st |-> st, cc |-> NoClientCall, qc |-> NoQueryCall]
        Miss(r) ==
          IF r.raised THEN r
          ELSE [r EXCEPT !.st.dc.table =
                   <<[val |-> r.ret, msgs |-> r.msgs, at |-> clock]>>]
    IN IF Fresh(st.dc.table, TTL_QUERY)
       THEN Hit(st.dc.table[1])
       ELSE Miss(load_table_data(s, st, env))

\* get_available_tables indexing the key instead of config.get(key, [])
get_available_tables_index(st) ==
    LET Names(tables) == [i \in 1..Len(tables) |-> tables[i].table_name]
        Body(c) ==
          IF "recommended_tables" \in DOMAIN c.ret
          THEN [ret |-> Names(c.ret["recommended_tables"]),
                msgs |-> c.msgs, ev |-> c.ev, raised |-> c.raised, st |-> c.st]
          ELSE [ret |-> <<>>, msgs |-> c.msgs, ev |-> c.ev, raised |-> TRUE,
                st |-> c.st]
    IN Body(CachedLoadConfig(st))

\* get_available_tables
get_available_tables(st) ==
    LET Names(tables) == [i \in 1..Len(tables) |-> tables[i].table_name]
        Body(c) ==
          [ret |-> Names(IF "recommended_tables" \in DOMAIN c.ret
                         THEN c.ret["recommended_tables"] ELSE <<>>),
           msgs |-> c.msgs, ev |-> c.ev, raised |-> c.raised, st |-> c.st]
    IN Body(CachedLoadConfig(st))

\* a handler that returns the datasets loaded before the exception
order_analytics_except_partial(r) ==
    [r EXCEPT !.msgs = @ \cup {"order_analytics_error"}]

\* get_order_analytics_data, lines 129-131: the handler of the try block.
\* r is the call as it stood when the exception was raised
order_analytics_except(r) ==
    [r EXCEPT !.ret = NoneResult, !.msgs = @ \cup {"order_analytics_error"}]

\* the statements sent one after the other whatever the first one selects
RECURSIVE OrderQueriesAll(_, _, _, _)
OrderQueriesAll(i, r, s, oq) ==
    IF i > Len(OrderStatements)
    THEN [r EXCEPT !.msgs = @ \cup {"all_loaded"}]
    ELSE LET Sent(q, t) ==
               IF oq[q] = "raise"
               THEN order_analytics_except(t)
               ELSE OrderQueriesAll(i + 1,
                        [t EXCEPT !.ret.dict =
                            [k \in DOMAIN @ \cup {q} |->
                                IF k = q
                                THEN [q |-> q, rows |-> t.st.w[q], exec |-> clock, by |-> s]
                                ELSE @[k]]],
                        s, oq)
         IN Sent(OrderStatements[i],
                 [r EXCEPT !.msgs = @ \cup {"loading"},
                           !.ev = Append(@, OrderStatements[i]),
                           !.st.w = WarehouseApply(@, OrderStatements[i])])

\* get_order_analytics_data, lines 30-127: the statements from the i-th on.
\* oq[q] = "raise" says that client.query(q).result() or the conversion of
\* its result raises
RECURSIVE OrderQueries(_, _, _, _)
OrderQueries(i, r, s, oq) ==
    IF i > Len(OrderStatements)
    THEN [r EXCEPT !.msgs = @ \cup {"all_loaded"}]
    ELSE LET Sent(q, t) ==
               IF oq[q] = "raise"
               THEN order_analytics_except(t)
               ELSE IF i = 1 /\ t.st.w[q] = 0
               THEN [t EXCEPT !.ret = NoneResult, !.msgs = @ \cup {"no_order_data"}]
               ELSE OrderQueries(i + 1,
                        [t EXCEPT !.ret.dict =
                            [k \in DOMAIN @ \cup {q} |->
                                IF k = q
                                THEN [q |-> q, rows |-> t.st.w[q], exec |-> clock, by |-> s]
                                ELSE @[k]]],
                        s, oq)
         IN Sent(OrderStatements[i],
                 [r EXCEPT !.msgs = @ \cup {"loading"},
                           !.ev = Append(@, OrderStatements[i]),
                           !.st.w = WarehouseApply(@, OrderStatements[i])])

\* get_order_analytics_data: the body; env.conn as for execute_query,
\* env.oq the outcome of each statement
get_order_analytics_data(s, st, env) ==
    LET Body(c) ==
          IF c.ret = None
          THEN [ret |-> NoneResult, msgs |-> c.msgs \cup {"page_connect_failed"},
                ev |-> c.ev, raised |-> FALSE, st |-> c.st, cc |-> c.cc]
          ELSE OrderQueries(1,
                   [ret |-> [isNone |-> FALSE, dict |-> EmptyDict], msgs |-> c.msgs,
                    ev |-> c.ev, raised |-> FALSE, st |-> c.st, cc |-> c.cc],
                   s, env.oq)
    IN Body(CachedGetClient(st, env.conn))

\* @st.cache_data(ttl=1800) on get_order_analytics_data
CachedOrderAnalytics(s, st, env) ==
    LET Hit(e) ==
          [ret |-> e.val, msgs |-> e.msgs, ev |-> <<>>, raised |-> FALSE,
           st |-> st, cc |-> NoClientCall, hit |-> TRUE]
        Miss(r) ==
          [ret |-> r.ret, msgs |-> r.msgs, ev |-> r.ev, raised |-> r.raised,
           st |-> IF r.raised THEN r.st
                  ELSE [r.st EXCEPT !.dc.analytics =
                           <<[val |-> r.ret, msgs |-> r.msgs, at |-> clock]>>],
           cc |-> r.cc, hit |-> FALSE]
    IN IF Fresh(st.dc.analytics, TTL_LOADER)
       THEN Hit(st.dc.analytics[1])
       ELSE Miss(get_order_analytics_data(s, st, env))

\* a clear of the resource cache that keeps the client handle
ClearResourceKeepsHandle(st) == st

ClearResource(st) == [st EXCEPT !.rc = <<>>]

\* a clear that drops the configuration and leaves the cached dataframes
ClearDataConfigOnly(st) == [st EXCEPT !.dc.config = <<>>]

\* st.cache_data.clear() and st.cache_resource.clear()
EmptyDataCache ==
    [config |-> <<>>, query |-> [l \in Queries |-> <<>>],
     loader |-> [l \in Loaders |-> <<>>], table |-> <<>>, analytics |-> <<>>]

ClearData(st) == [st EXCEPT !.dc = EmptyDataCache]

-----------------------------------------------------------------------------
(* The script run of Main.py *)

Clicks == {"none", "refresh", "clear"}

Envs == [conn : BOOLEAN, q : {"ok", "raise", "convert"}]

\* rerun: the run was started by st.rerun() of the 'Refresh Data' handler;
\* cleared: the 'Clear Cache' handler ran earlier in this run
NewRun ==
    [invoked |-> <<>>, data |-> [l \in Loaders |-> <<>>], status |-> <<>>,
     outcome |-> "running", rerun |-> FALSE, cleared |-> FALSE]

\* the locals of a script run are gone when it ends; what it rendered stays
EndRun(status, outcome) == [NewRun EXCEPT !.status = status, !.outcome = outcome]

NewEpoch == [constructed |-> 0, returned |-> {}]

St == [dc |-> dataCache, rc |-> resourceCache, nh |-> nextHandle, w |-> wh]

Commit(st) ==
    /\ dataCache' = st.dc
    /\ resourceCache' = st.rc
    /\ nextHandle' = st.nh
    /\ wh' = st.w

Count(ev, x) == Cardinality({i \in 1..Len(ev) : ev[i] = x})

\* the history of the client handle since the last resource-cache clear
Observe(ep, cc) ==
    IF cc.invoked
    THEN [constructed |-> ep.constructed + Count(cc.ev, "connect"),
          returned |-> ep.returned \cup {cc.ret}]
    ELSE ep

\* lines 139-144 of create_dashboard: the loaders return polars dataframes,
\* which have is_empty() and no attribute 'empty': evaluating
\* customer_data.empty raises AttributeError before any status is computed
data_status(data) == [raised |-> TRUE, ret |-> <<>>]

\* the configurations and warehouses the dashboard runs are explored with
MainConfigs ==
    {[kind |-> "missing", obj |-> EmptyDict],
     [kind |-> "json", obj |-> ConfigObject(RequiredFields, <<>>)]}

Warehouses ==
    {[l \in Statements |-> IF l \in none THEN 0 ELSE 1] : none \in {{}, {"review"}}}

InitServer ==
    /\ clock = 0
    /\ dataCache = EmptyDataCache
    /\ resourceCache = <<>>
    /\ nextHandle = 0
    /\ epoch = NewEpoch
    /\ last = NoCall
    /\ pc = [s \in Sessions |-> "idle"]
    /\ click = [s \in Sessions |-> "none"]
    /\ buttons = [s \in Sessions |-> FALSE]
    /\ ss = [s \in Sessions |-> [data_loaded |-> <<>>, last_refresh |-> <<>>]]
    /\ run = [s \in Sessions |-> NewRun]

\* the parts that run apart from the dashboard server, before they have run
InitApart ==
    /\ customers = <<>>
    /\ scored = <<>>
    /\ frame = <<>>
    /\ query_times = <<>>
    /\ health = <<>>
    /\ monitor = <<>>

InitRest == InitServer /\ InitApart

Init ==
    /\ configFile \in MainConfigs
    /\ wh \in Warehouses
    /\ InitRest

\* `if __name__ == "__main__": show_data_summary()`: a script run starts,
\* on a page load (b = "none") or on the click of a sidebar button
ShowDataSummary(s, b) ==
    /\ pc[s] \in {"idle", "rerun"}
    /\ pc[s] = "rerun" => b = "none"
    /\ b # "none" => buttons[s]
    /\ b = "clear" => nextHandle < MaxHandles
    /\ LET Tables(c) == IF c.ret # EmptyDict THEN get_available_tables(c.st) ELSE c
           Do(t) == Commit(t.st)
       IN Do(Tables(CachedLoadConfig(St)))
    /\ last' = NoCall
    /\ pc' = [pc EXCEPT ![s] = "main"]
    /\ click' = [click EXCEPT ![s] = b]
    /\ run' = [run EXCEPT ![s] = [NewRun EXCEPT !.rerun = (pc[s] = "rerun")]]
    /\ UNCHANGED <<configFile, clock, epoch, buttons, ss>>
    /\ UNCHANGED apart

\* an initialisation that marks the data as loaded
initialize_session_state_loaded(state) ==
    [data_loaded |-> IF state.data_loaded = <<>> THEN <<TRUE>> ELSE state.data_loaded,
     last_refresh |-> IF state.last_refresh = <<>> THEN <<-1>> ELSE state.last_refresh]

\* initialize_session_state: a key of st.session_state is <<>> while absent;
\* last_refresh = None is <<-1>>, a click time is <<clock>>
initialize_session_state(state) ==
    [data_loaded |-> IF state.data_loaded = <<>> THEN <<FALSE>> ELSE state.data_loaded,
     last_refresh |-> IF state.last_refresh = <<>> THEN <<-1>> ELSE state.last_refresh]

\* a main() that shows the connection error and goes on to the sidebar
MainConnectUngated(s, connOK) ==
    /\ pc[s] = "main"
    /\ ss' = [ss EXCEPT ![s] = initialize_session_state(ss[s])]
    /\ LET Do(c) ==
             /\ Commit(c.st)
             /\ epoch' = Observe(epoch, c.cc)
             /\ last' = [NoCall EXCEPT !.c = c.cc]
             /\ pc' = [pc EXCEPT ![s] = "sidebar"]
             /\ UNCHANGED <<run, buttons, click>>
       IN Do(CachedGetClient(St, connOK))
    /\ UNCHANGED <<configFile, clock>>
    /\ UNCHANGED apart

\* main() up to the connection check
MainConnect(s, connOK) ==
    /\ pc[s] = "main"
    /\ ss' = [ss EXCEPT ![s] = initialize_session_state(ss[s])]
    /\ LET Do(c) ==
             /\ Commit(c.st)
             /\ epoch' = Observe(epoch, c.cc)
             /\ last' = [NoCall EXCEPT !.c = c.cc]
             /\ IF c.ret = None
                THEN /\ pc' = [pc EXCEPT ![s] = "idle"]
                     /\ run' = [run EXCEPT ![s] = EndRun(<<>>, "connection_error")]
                     /\ buttons' = [buttons EXCEPT ![s] = FALSE]
                     /\ click' = [click EXCEPT ![s] = "none"]
                ELSE /\ pc' = [pc EXCEPT ![s] = "sidebar"]
                     /\ UNCHANGED <<run, buttons, click>>
       IN Do(CachedGetClient(St, connOK))
    /\ UNCHANGED <<configFile, clock>>
    /\ UNCHANGED apart

\* create_sidebar
CreateSidebar(s) ==
    /\ pc[s] = "sidebar"
    /\ LET Do(c) ==
             CASE click[s] = "refresh" ->
                    /\ Commit(ClearData(c.st))
                    /\ ss' = [ss EXCEPT ![s] = [data_loaded |-> <<FALSE>>,
                                                last_refresh |-> <<clock>>]]
                    /\ pc' = [pc EXCEPT ![s] = "rerun"]
                    /\ run' = [run EXCEPT ![s] = EndRun(<<>>, "rerun")]
                    /\ epoch' = epoch
               [] click[s] = "clear" ->
                    /\ Commit(ClearResource(ClearData(c.st)))
                    /\ epoch' = NewEpoch
                    /\ pc' = [pc EXCEPT ![s] = LoaderOrder[1]]
                    /\ run' = [run EXCEPT ![s].cleared = TRUE]
                    /\ ss' = ss
               [] click[s] = "none" ->
                    /\ Commit(c.st)
                    /\ pc' = [pc EXCEPT ![s] = LoaderOrder[1]]
                    /\ UNCHANGED <<ss, run, epoch>>
       IN Do(CachedLoadConfig(St))
    /\ buttons' = [buttons EXCEPT ![s] = TRUE]
    /\ click' = [click EXCEPT ![s] = "none"]
    /\ last' = NoCall
    /\ UNCHANGED <<configFile, clock>>
    /\ UNCHANGED apart

Position(l) == CHOOSE i \in 1..Len(LoaderOrder) : LoaderOrder[i] = l

\* what a call of a cached loader did: hit says the loader's own cache
\* served it
LoaderRecord(l, hit, r) ==
    [invoked |-> TRUE, hit |-> hit, name |-> l, ret |-> r.ret, ev |-> r.ev,
     raised |-> r.raised]

\* create_dashboard, lines 118-132: one loader call
Load(s, env) ==
    /\ pc[s] \in Loaders
    /\ LET Do(l, r) ==
             /\ Commit(r.st)
             /\ epoch' = Observe(epoch, r.cc)
             /\ last' = [NoCall EXCEPT !.q = r.qc, !.c = r.cc,
                                       !.l = LoaderRecord(l,
                                                Fresh(dataCache.loader[l], TTL_LOADER), r)]
             /\ IF r.raised
                THEN /\ pc' = [pc EXCEPT ![s] = "idle"]
                     /\ run' = [run EXCEPT ![s] = EndRun(<<>>, "exception")]
                ELSE /\ pc' = [pc EXCEPT ![s] =
                                 IF Position(l) < Len(LoaderOrder)
                                 THEN LoaderOrder[Position(l) + 1] ELSE "status"]
                     /\ run' = [run EXCEPT ![s].invoked = Append(@, l),
                                           ![s].data[l] = <<r.ret>>]
       IN Do(pc[s], CachedLoader(pc[s], s, St, env))
    /\ UNCHANGED <<configFile, clock, click, buttons, ss>>
    /\ UNCHANGED apart

\* create_dashboard, lines 139-154: the data status
DataStatus(s) ==
    /\ pc[s] = "status"
    /\ LET Do(d) ==
             run' = [run EXCEPT ![s] =
                        EndRun(d.ret, IF d.raised THEN "AttributeError" ELSE "rendered")]
       IN Do(data_status(run[s].data))
    /\ pc' = [pc EXCEPT ![s] = "idle"]
    /\ last' = NoCall
    /\ UNCHANGED <<configFile, wh, clock, dataCache, resourceCache, nextHandle,
                   epoch, click, buttons, ss>>
    /\ UNCHANGED apart

\* time passes.  A script run lasts seconds and the unit of time here is a
\* quarter of an hour: the clock advances between script runs
Tick ==
    /\ \A s \in Sessions : pc[s] = "idle"
    /\ clock < MaxTicks * TickLen
    /\ clock' = clock + TickLen
    /\ last' = NoCall
    /\ UNCHANGED <<configFile, wh, dataCache, resourceCache, nextHandle, epoch,
                   pc, click, buttons, ss, run>>
    /\ UNCHANGED apart

\* one session uses the dashboard: page loads, both buttons, time passing
Solo == {1}

Next ==
    \/ \E s \in Solo, b \in Clicks : ShowDataSummary(s, b)
    \/ \E s \in Solo, connOK \in BOOLEAN : MainConnect(s, connOK)
    \/ \E s \in Solo : CreateSidebar(s)
    \/ \E s \in Solo, env \in Envs : Load(s, env)
    \/ \E s \in Solo : DataStatus(s)
    \/ Tick

Spec == Init /\ [][Next]_vars

-----------------------------------------------------------------------------
(* Two sessions load the page and refresh, in every interleaving of their   *)
(* cached-function calls, against one warehouse                             *)

InitShared ==
    /\ configFile = [kind |-> "json", obj |-> ConfigObject(RequiredFields, <<>>)]
    /\ wh = [l \in Statements |-> IF l = "review" THEN 0 ELSE 1]
    /\ InitRest

NextShared ==
    \/ \E s \in Sessions, b \in {"none", "refresh"} : ShowDataSummary(s, b)
    \/ \E s \in Sessions, connOK \in BOOLEAN : MainConnect(s, connOK)
    \/ \E s \in Sessions : CreateSidebar(s)
    \/ \E s \in Sessions, env \in Envs : Load(s, env)
    \/ \E s \in Sessions : DataStatus(s)

SpecShared == InitShared /\ [][NextShared]_vars

-----------------------------------------------------------------------------
(* The configuration functions applied to every configuration file          *)

InitConfig ==
    /\ configFile \in ConfigFiles
    /\ wh = [l \in Statements |-> 1]
    /\ InitRest

\* a call of load_config()
LoadConfigCall ==
    /\ LET Do(c) ==
             /\ Commit(c.st)
             /\ last' = [NoCall EXCEPT !.cfg = [invoked |-> TRUE, hit |-> c.hit,
                                                ret |-> c.ret, msgs |-> c.msgs,
                                                raised |-> c.raised]]
       IN Do(CachedLoadConfig(St))
    /\ UNCHANGED <<configFile, clock, epoch, pc, click, buttons, ss, run>>
    /\ UNCHANGED apart

\* a call of get_available_tables()
AvailableTablesCall ==
    /\ LET Do(t) ==
             /\ Commit(t.st)
             /\ last' = [NoCall EXCEPT !.tables = [invoked |-> TRUE, ret |-> t.ret,
                                                   raised |-> t.raised]]
       IN Do(get_available_tables(St))
    /\ UNCHANGED <<configFile, clock, epoch, pc, click, buttons, ss, run>>
    /\ UNCHANGED apart

\* st.cache_data.clear()
ClearDataCall ==
    /\ dataCache # EmptyDataCache
    /\ Commit(ClearData(St))
    /\ last' = NoCall
    /\ UNCHANGED <<configFile, clock, epoch, pc, click, buttons, ss, run>>
    /\ UNCHANGED apart

NextConfig ==
    \/ LoadConfigCall
    \/ AvailableTablesCall
    \/ ClearDataCall

SpecConfig == InitConfig /\ [][NextConfig]_vars

-----------------------------------------------------------------------------
(* The config-dependent loaders called directly, under every kind of        *)
(* configuration file, with clears of the data cache                        *)

InitLoaders ==
    /\ configFile \in MainConfigs \cup {[kind |-> "invalid", obj |-> EmptyDict],
                                        [kind |-> "json",
                                         obj |-> ConfigObject({"project_id"}, <<>>)]}
    /\ wh = [l \in Statements |-> 1]
    /\ InitRest

\* a call of one of the four loaders of data_processing.py
LoaderCallStep(l, env) ==
    /\ LET Do(r) ==
             /\ Commit(r.st)
             /\ epoch' = Observe(epoch, r.cc)
             /\ last' = [NoCall EXCEPT !.q = r.qc, !.c = r.cc,
                                       !.l = LoaderRecord(l,
                                                Fresh(dataCache.loader[l], TTL_LOADER), r)]
       IN Do(CachedLoader(l, 1, St, env))
    /\ UNCHANGED <<configFile, clock, pc, click, buttons, ss, run>>
    /\ UNCHANGED apart

\* a call of load_table_data
LoadTableDataCall(env) ==
    /\ LET Do(r) ==
             /\ Commit(r.st)
             /\ epoch' = Observe(epoch, r.cc)
             /\ last' = [NoCall EXCEPT !.q = r.qc, !.c = r.cc,
                                       !.l = LoaderRecord("table",
                                                Fresh(dataCache.table, TTL_QUERY), r)]
       IN Do(CachedLoadTableData(1, St, env))
    /\ UNCHANGED <<configFile, clock, pc, click, buttons, ss, run>>
    /\ UNCHANGED apart

NextLoaders ==
    \/ \E l \in Loaders, env \in Envs : LoaderCallStep(l, env)
    \/ \E env \in Envs : LoadTableDataCall(env)
    \/ ClearDataCall

SpecLoaders == InitLoaders /\ [][NextLoaders]_vars

-----------------------------------------------------------------------------
(* The Order Analytics page calling get_order_analytics_data, under every   *)
(* outcome of the connection and of its four statements, with cache clears  *)
(* and time passing                                                         *)

\* the outcomes of the external calls of one get_order_analytics_data call
OrderEnvs == [conn : BOOLEAN, oq : [Range(OrderStatements) -> {"ok", "raise"}]]

InitOrders ==
    /\ configFile \in MainConfigs
    /\ wh \in {[l \in Statements |-> IF l \in none THEN 0 ELSE 1] :
                  none \in {{}, {"order_data"}, {"category_data"}}}
    /\ InitRest

\* the page script reaches `data = get_order_analytics_data()`
OrderAnalyticsCall(env) ==
    /\ LET Do(r) ==
             /\ Commit(r.st)
             /\ epoch' = Observe(epoch, r.cc)
             /\ last' = [NoCall EXCEPT !.c = r.cc,
                                       !.oa = [invoked |-> TRUE, hit |-> r.hit,
                                               client |-> r.cc.ret, ret |-> r.ret,
                                               msgs |-> r.msgs, ev |-> r.ev,
                                               raised |-> r.raised, oq |-> env.oq]]
       IN Do(CachedOrderAnalytics(1, St, env))
    /\ UNCHANGED <<configFile, clock, pc, click, buttons, ss, run>>
    /\ UNCHANGED apart

\* st.cache_data.clear() followed by st.cache_resource.clear()
ClearAllCall ==
    /\ resourceCache # <<>>
    /\ nextHandle < MaxHandles
    /\ Commit(ClearResource(ClearData(St)))
    /\ epoch' = NewEpoch
    /\ last' = NoCall
    /\ UNCHANGED <<configFile, clock, pc, click, buttons, ss, run>>
    /\ UNCHANGED apart

NextOrders ==
    \/ \E env \in OrderEnvs : OrderAnalyticsCall(env)
    \/ ClearDataCall
    \/ ClearAllCall
    \/ Tick

SpecOrders == InitOrders /\ [][NextOrders]_vars

-----------------------------------------------------------------------------
(* The health check script test_analytics_pages.py: a process of its own,   *)
(* with its own (empty) caches, running main() once                         *)

\* a report of main() that prints 'All systems operational' when any check
\* passed
health_report_any(results) ==
    IF \E i \in 1..Len(results) : results[i]
    THEN [operational |-> TRUE,
          lines |-> [i \in 1..Len(results) |-> "HEALTHY"]]
    ELSE [operational |-> FALSE,
          lines |-> [i \in 1..Len(results) |->
                        IF results[i] THEN "HEALTHY" ELSE "UNHEALTHY"]]

\* main(), lines 128-140: the report printed for the list of results
health_report(results) ==
    IF \A i \in 1..Len(results) : results[i]
    THEN [operational |-> TRUE,
          lines |-> [i \in 1..Len(results) |-> "HEALTHY"]]
    ELSE [operational |-> FALSE,
          lines |-> [i \in 1..Len(results) |->
                        IF results[i] THEN "HEALTHY" ELSE "UNHEALTHY"]]

\* test_order_analytics / test_review_analytics / test_geographic_analytics:
\* check is the name of the check, qOutcome = "raise" says that
\* client.query(query).result() raises.  The statement is an aggregate
\* without GROUP BY and returns one row; when no row of the table matches,
\* its SUM and AVG columns are NULL, and printing None with the format
\* ',.2f', ':,' or '.2f' raises TypeError inside the try block.
\* why records what made the check fail
test_analytics(check, st, connOK, qOutcome) ==
    LET Body(c) ==
          IF c.ret = None
          THEN [ret |-> FALSE, why |-> "client", ev |-> c.ev, st |-> c.st, cc |-> c.cc]
          ELSE IF qOutcome = "raise"
          THEN [ret |-> FALSE, why |-> "query", ev |-> Append(c.ev, check),
                st |-> c.st, cc |-> c.cc]
          ELSE IF c.st.w[check] = 0
          THEN [ret |-> FALSE, why |-> "print", ev |-> Append(c.ev, check),
                st |-> [c.st EXCEPT !.w = WarehouseApply(@, check)], cc |-> c.cc]
          ELSE [ret |-> TRUE, why |-> "none", ev |-> Append(c.ev, check),
                st |-> [c.st EXCEPT !.w = WarehouseApply(@, check)], cc |-> c.cc]
    IN Body(CachedGetClient(st, connOK))

InitHealth ==
    /\ configFile \in MainConfigs
    /\ wh \in {[l \in Statements |-> IF l \in none THEN 0 ELSE 1] :
                  none \in SUBSET Range(HealthChecks)}
    /\ InitServer
    /\ customers = <<>>
    /\ scored = <<>>
    /\ frame = <<>>
    /\ query_times = <<>>
    /\ health = <<>>
    /\ monitor = <<>>

\* main(), lines 118-121: the script starts with an empty list of results
HealthMain ==
    /\ health = <<>>
    /\ health' = [results |-> <<>>, checks |-> <<>>, report |-> <<>>]
    /\ last' = NoCall
    /\ UNCHANGED <<server, customers, scored, frame, query_times, monitor>>

\* main(), lines 122-124: results.append(test_...()), the next check
HealthCheck(connOK, qOutcome) ==
    /\ health # <<>>
    /\ Len(health.results) < Len(HealthChecks)
    /\ LET Do(r) ==
             /\ Commit(r.st)
             /\ epoch' = Observe(epoch, r.cc)
             /\ last' = [NoCall EXCEPT !.c = r.cc]
             /\ health' = [health EXCEPT
                    !.results = Append(@, r.ret),
                    !.checks = Append(@, [name |-> HealthChecks[Len(health.results) + 1],
                                          client |-> r.cc.ret, why |-> r.why,
                                          ev |-> r.ev])]
       IN Do(test_analytics(HealthChecks[Len(health.results) + 1], St, connOK, qOutcome))
    /\ UNCHANGED <<configFile, clock, pc, click, buttons, ss, run,
                   customers, scored, frame, query_times, monitor>>

\* main(), lines 126-140: the report
HealthReport ==
    /\ health # <<>>
    /\ Len(health.results) = Len(HealthChecks)
    /\ health.report = <<>>
    /\ health' = [health EXCEPT !.report = <<health_report(health.results)>>]
    /\ last' = NoCall
    /\ UNCHANGED <<server, customers, scored, frame, query_times, monitor>>

NextHealth ==
    \/ HealthMain
    \/ \E connOK \in BOOLEAN, qOutcome \in {"ok", "raise"} : HealthCheck(connOK, qOutcome)
    \/ HealthReport

SpecHealth == InitHealth /\ [][NextHealth]_vars

-----------------------------------------------------------------------------
(* The statement of get_customer_segments, as the warehouse evaluates it:   *)
(* customer_metrics -> rfm_analysis (three NTILE(5) windows) ->             *)
(* customer_segments (the CASE) -> ORDER BY total_spent DESC                *)

\* a row of customer_metrics: dates, order counts and amounts are numbers,
\* a later date the larger one; customer_unique_id is the row's index
Metrics ==
    [last_order_date : 1..MaxMetric, total_orders : 1..MaxMetric,
     total_spent : 1..MaxMetric]

\* ORDER BY key ASC / DESC over the rows S of table t: every row order the
\* engine may produce; rows with equal keys come in any order
RECURSIVE OrderBy(_, _, _, _)
OrderBy(t, S, key, desc) ==
    IF S = {} THEN {<<>>}
    ELSE UNION {{<<i>> \o o : o \in OrderBy(t, S \ {i}, key, desc)} :
                i \in {j \in S : \A k \in S :
                          IF desc THEN t[j][key] >= t[k][key]
                                  ELSE t[j][key] <= t[k][key]}}

\* the position of row i in the row order o
RowNumber(o, i) == CHOOSE p \in 1..Len(o) : o[p] = i

\* NTILE(n) for the row at position p of N ordered rows: n buckets whose
\* sizes differ by at most one, the larger ones first
NTile(n, N, p) ==
    LET base == N \div n
        extra == N % n
    IN IF p <= extra * (base + 1)
       THEN ((p - 1) \div (base + 1)) + 1
       ELSE extra + ((p - extra * (base + 1) - 1) \div base) + 1

\* rfm_analysis, lines 41-50; or, of, om are the row orders of the windows
rfm_analysis(t, or, of, om) ==
    [i \in 1..Len(t) |->
        [customer_unique_id |-> i,
         last_order_date |-> t[i].last_order_date,
         total_orders |-> t[i].total_orders,
         total_spent |-> t[i].total_spent,
         recency_score |-> NTile(NTILES, Len(t), RowNumber(or, i)),
         frequency_score |-> NTile(NTILES, Len(t), RowNumber(of, i)),
         monetary_score |-> NTile(NTILES, Len(t), RowNumber(om, i))]]

\* the CASE with the 'Loyal Customers' branch written first
customer_segment_loyal_first(r) ==
    IF r.recency_score >= 4 /\ r.monetary_score >= 3 THEN "Loyal Customers"
    ELSE IF r.monetary_score >= 4 /\ r.frequency_score >= 4 THEN "Champions"
    ELSE IF r.monetary_score >= 4 /\ r.frequency_score <= 2 THEN "Big Spenders"
    ELSE IF r.recency_score >= 4 /\ r.monetary_score <= 2 THEN "New Customers"
    ELSE IF r.frequency_score >= 3 /\ r.monetary_score >= 3 THEN "Potential Loyalists"
    ELSE IF r.recency_score <= 2 /\ r.frequency_score >= 2 THEN "At Risk"
    ELSE IF r.total_orders = 1 THEN "One-Time Buyers"
    ELSE "Regular Customers"

\* the CASE of customer_segments, lines 53-70
customer_segment(r) ==
    IF r.monetary_score >= 4 /\ r.frequency_score >= 4 THEN "Champions"
    ELSE IF r.recency_score >= 4 /\ r.monetary_score >= 3 THEN "Loyal Customers"
    ELSE IF r.monetary_score >= 4 /\ r.frequency_score <= 2 THEN "Big Spenders"
    ELSE IF r.recency_score >= 4 /\ r.monetary_score <= 2 THEN "New Customers"
    ELSE IF r.frequency_score >= 3 /\ r.monetary_score >= 3 THEN "Potential Loyalists"
    ELSE IF r.recency_score <= 2 /\ r.frequency_score >= 2 THEN "At Risk"
    ELSE IF r.total_orders = 1 THEN "One-Time Buyers"
    ELSE "Regular Customers"

\* the whole statement, lines 22-87; oo is the row order of the final
\* ORDER BY
customer_segments(t, or, of, om, oo) ==
    LET Out(rows) ==
          [p \in 1..Len(t) |->
              [customer_unique_id |-> rows[oo[p]].customer_unique_id,
               last_order_date |-> rows[oo[p]].last_order_date,
               total_orders |-> rows[oo[p]].total_orders,
               total_spent |-> rows[oo[p]].total_spent,
               recency_score |-> rows[oo[p]].recency_score,
               frequency_score |-> rows[oo[p]].frequency_score,
               monetary_score |-> rows[oo[p]].monetary_score,
               customer_segment |-> customer_segment(rows[oo[p]])]]
    IN Out(rfm_analysis(t, or, of, om))

\* customer_metrics tables are built one customer at a time, up to
\* MaxCustomers, in one order of the customers; tables of NTILES + 2
\* customers with distinct dates, counts and amounts fill buckets of two
\* sizes
Code(m) == (m.last_order_date * MaxMetric + m.total_orders) * MaxMetric + m.total_spent

LargeTables ==
    {[i \in 1..(NTILES + 2) |->
        [last_order_date |-> IF a THEN i ELSE NTILES + 3 - i,
         total_orders |-> IF b THEN i ELSE NTILES + 3 - i,
         total_spent |-> IF c THEN i ELSE NTILES + 3 - i]] : a, b, c \in BOOLEAN}

InitRFM ==
    /\ configFile = [kind |-> "json", obj |-> ConfigObject(RequiredFields, <<>>)]
    /\ wh = [l \in Statements |-> 1]
    /\ InitServer
    /\ customers \in {<<>>} \cup LargeTables
    /\ scored = <<>>
    /\ frame = <<>>
    /\ query_times = <<>>
    /\ health = <<>>
    /\ monitor = <<>>

\* a customer's first delivered order puts a row into customer_metrics
AddCustomer(m) ==
    /\ Len(customers) < MaxCustomers
    /\ customers # <<>> => Code(customers[Len(customers)]) <= Code(m)
    /\ customers' = Append(customers, m)
    /\ last' = NoCall
    /\ UNCHANGED <<server, scored, frame, query_times, health, monitor>>

\* the warehouse runs the statement (once for each table: a second run has
\* the same outcomes to choose from)
SegmentationQuery ==
    /\ customers # <<>>
    /\ last.seg = <<>>
    /\ \E or \in OrderBy(customers, DOMAIN customers, "last_order_date", TRUE),
          of \in OrderBy(customers, DOMAIN customers, "total_orders", FALSE),
          om \in OrderBy(customers, DOMAIN customers, "total_spent", FALSE),
          oo \in OrderBy(customers, DOMAIN customers, "total_spent", TRUE) :
            last' = [NoCall EXCEPT !.seg = <<customer_segments(customers, or, of, om, oo)>>]
    /\ UNCHANGED <<server, apart>>

NextRFM ==
    \/ \E m \in Metrics : AddCustomer(m)
    \/ SegmentationQuery

SpecRFM == InitRFM /\ [][NextRFM]_vars

-----------------------------------------------------------------------------
(* The CASE of customer_segments applied to every row of scores *)

\* the rows of rfm_analysis, as far as the CASE reads them
ScoredRows ==
    [recency_score : 1..NTILES, frequency_score : 1..NTILES,
     monetary_score : 1..NTILES, total_orders : 1..MaxMetric]

InitSegments ==
    /\ configFile = [kind |-> "json", obj |-> ConfigObject(RequiredFields, <<>>)]
    /\ wh = [l \in Statements |-> 1]
    /\ InitServer
    /\ customers = <<>>
    /\ scored \in ScoredRows
    /\ frame = <<>>
    /\ query_times = <<>>
    /\ health = <<>>
    /\ monitor = <<>>

\* the CASE is evaluated for the row
SegmentRow ==
    /\ last.segment = <<>>
    /\ last' = [NoCall EXCEPT !.segment = <<customer_segment(scored)>>]
    /\ UNCHANGED <<server, apart>>

NextSegments == SegmentRow

SpecSegments == InitSegments /\ [][NextSegments]_vars

-----------------------------------------------------------------------------
(* calculate_business_metrics applied to dataframes *)

\* the columns the function looks for
MetricColumns ==
    {"price", "total_spent", "customer_unique_id", "order_id", "review_score"}

\* the values of a cell (amounts, identifiers and scores alike)
CellValues == {1, 2}

\* a dataframe is a record of its height and, for each of its columns, the
\* cells; pl.DataFrame() has no column and no row
NoFrame == [height |-> 0, cols |-> EmptyDict]

RECURSIVE SumCells(_)
SumCells(col) == IF col = <<>> THEN 0 ELSE col[1] + SumCells(Tail(col))

\* the number the format ',.2f' / '.2f' prints for num / den, in hundredths
\* (rounded to the nearest; no tie occurs for the heights used here)
Hundredths(num, den) == (200 * num + den) \div (2 * den)

\* a formatted value: the format and the number printed (hundredths for
\* "$,.2f" and ".2f/5", units for ",")
Formatted(fmt, n) == [fmt |-> fmt, n |-> n]

\* calculate_business_metrics taking 'price' when both revenue columns exist
calculate_business_metrics_price_first(df) ==
    LET has(c) == c \in DOMAIN df.cols
        revenue_col == IF has("price") THEN "price" ELSE "total_spent"
        keys == (IF has("price") \/ has("total_spent")
                 THEN {"Total Revenue", "Average Order Value"} ELSE {})
                \cup (IF has("customer_unique_id") THEN {"Total Customers"} ELSE {})
                \cup (IF has("order_id") THEN {"Total Orders"} ELSE {})
                \cup (IF has("review_score") THEN {"Average Rating"} ELSE {})
    IN IF df.height = 0 THEN EmptyDict
       ELSE [k \in keys |->
               CASE k = "Total Revenue" ->
                      Formatted("$,.2f", Hundredths(SumCells(df.cols[revenue_col]), 1))
                 [] k = "Average Order Value" ->
                      Formatted("$,.2f", Hundredths(SumCells(df.cols[revenue_col]), df.height))
                 [] k = "Total Customers" ->
                      Formatted(",", Cardinality(Range(df.cols["customer_unique_id"])))
                 [] k = "Total Orders" ->
                      Formatted(",", Cardinality(Range(df.cols["order_id"])))
                 [] k = "Average Rating" ->
                      Formatted(".2f/5", Hundredths(SumCells(df.cols["review_score"]), df.height))]

\* calculate_business_metrics
calculate_business_metrics(df) ==
    LET has(c) == c \in DOMAIN df.cols
        revenue_col == IF has("total_spent") THEN "total_spent" ELSE "price"
        keys == (IF has("price") \/ has("total_spent")
                 THEN {"Total Revenue", "Average Order Value"} ELSE {})
                \cup (IF has("customer_unique_id") THEN {"Total Customers"} ELSE {})
                \cup (IF has("order_id") THEN {"Total Orders"} ELSE {})
                \cup (IF has("review_score") THEN {"Average Rating"} ELSE {})
    IN IF df.height = 0 THEN EmptyDict
       ELSE [k \in keys |->
               CASE k = "Total Revenue" ->
                      Formatted("$,.2f", Hundredths(SumCells(df.cols[revenue_col]), 1))
                 [] k = "Average Order Value" ->
                      Formatted("$,.2f", Hundredths(SumCells(df.cols[revenue_col]), df.height))
                 [] k = "Total Customers" ->
                      Formatted(",", Cardinality(Range(df.cols["customer_unique_id"])))
                 [] k = "Total Orders" ->
                      Formatted(",", Cardinality(Range(df.cols["order_id"])))
                 [] k = "Average Rating" ->
                      Formatted(".2f/5", Hundredths(SumCells(df.cols["review_score"]), df.height))]

InitMetrics ==
    /\ configFile = [kind |-> "json", obj |-> ConfigObject(RequiredFields, <<>>)]
    /\ wh = [l \in Statements |-> 1]
    /\ InitServer
    /\ customers = <<>>
    /\ scored = <<>>
    /\ frame = NoFrame
    /\ query_times = <<>>
    /\ health = <<>>
    /\ monitor = <<>>

\* the dataframe to pass gets one more column
WithColumn(c, cells) ==
    /\ c \notin DOMAIN frame.cols
    /\ frame' = [frame EXCEPT !.cols =
                    [d \in DOMAIN @ \cup {c} |-> IF d = c THEN cells ELSE @[d]]]
    /\ last' = NoCall
    /\ UNCHANGED <<server, customers, scored, query_times, health, monitor>>

\* the dataframe to pass gets one more row
WithRow(row) ==
    /\ DOMAIN frame.cols # {}
    /\ frame.height < MaxRows
    /\ frame' = [height |-> frame.height + 1,
                 cols |-> [d \in DOMAIN frame.cols |-> Append(frame.cols[d], row[d])]]
    /\ last' = NoCall
    /\ UNCHANGED <<server, customers, scored, query_times, health, monitor>>

\* a call calculate_business_metrics(frame)
BusinessMetricsCall ==
    /\ last.metrics = <<>>
    /\ last' = [NoCall EXCEPT !.metrics = <<calculate_business_metrics(frame)>>]
    /\ UNCHANGED <<server, apart>>

NextMetrics ==
    \/ \E c \in MetricColumns, cells \in [1..frame.height -> CellValues] :
          WithColumn(c, cells)
    \/ \E row \in [DOMAIN frame.cols -> CellValues] : WithRow(row)
    \/ BusinessMetricsCall

SpecMetrics == InitMetrics /\ [][NextMetrics]_vars

-----------------------------------------------------------------------------
(* PerformanceTracker in one session.  query_times.metrics is               *)
(* st.session_state.performance_metrics; query_times.calls is the list of   *)
(* all track_query calls made so far, kept to state what the histories hold *)

QueryNames == {"Customer Segmentation", "Order Performance"}

\* seq[-n:]
LastN(seq, n) ==
    IF Len(seq) <= n THEN seq ELSE SubSeq(seq, Len(seq) - n + 1, Len(seq))

\* a tracker that keeps the first ten executions, [:10]
track_query_first(metrics, query_name, execution_time, row_count, now) ==
    LET Put(m) ==
          [m EXCEPT ![query_name] =
              SubSeq(Append(@, [execution_time |-> execution_time,
                                row_count |-> row_count, timestamp |-> now]),
                     1, IF Len(@) + 1 <= KEEP_LAST THEN Len(@) + 1 ELSE KEEP_LAST)]
    IN Put(IF query_name \in DOMAIN metrics THEN metrics
           ELSE [n \in DOMAIN metrics \cup {query_name} |->
                    IF n = query_name THEN <<>> ELSE metrics[n]])

\* PerformanceTracker.track_query; now is time.time()
track_query(metrics, query_name, execution_time, row_count, now) ==
    LET Put(m) ==
          [m EXCEPT ![query_name] =
              LastN(Append(@, [execution_time |-> execution_time,
                               row_count |-> row_count, timestamp |-> now]),
                    KEEP_LAST)]
    IN Put(IF query_name \in DOMAIN metrics THEN metrics
           ELSE [n \in DOMAIN metrics \cup {query_name} |->
                    IF n = query_name THEN <<>> ELSE metrics[n]])

InitTracker ==
    /\ configFile = [kind |-> "json", obj |-> ConfigObject(RequiredFields, <<>>)]
    /\ wh = [l \in Statements |-> 1]
    /\ InitServer
    /\ customers = <<>>
    /\ scored = <<>>
    /\ frame = <<>>
    /\ query_times = <<>>
    /\ health = <<>>
    /\ monitor = <<>>

\* PerformanceTracker.__init__: performance_metrics = {} when absent
PerformanceTrackerInit ==
    /\ query_times = <<>>
    /\ query_times' = [metrics |-> EmptyDict, calls |-> <<>>]
    /\ last' = NoCall
    /\ UNCHANGED <<server, customers, scored, frame, health, monitor>>

\* a call perf_tracker.track_query(query_name, execution_time, row_count);
\* the number of the call stands for the time it is made at
TrackQuery(query_name, execution_time, row_count) ==
    /\ query_times # <<>>
    /\ Len(query_times.calls) < MaxCalls
    /\ query_times' =
          [metrics |-> track_query(query_times.metrics, query_name, execution_time,
                                   row_count, Len(query_times.calls) + 1),
           calls |-> Append(query_times.calls,
                            [query_name |-> query_name,
                             entry |-> [execution_time |-> execution_time,
                                        row_count |-> row_count,
                                        timestamp |-> Len(query_times.calls) + 1]])]
    /\ last' = NoCall
    /\ UNCHANGED <<server, customers, scored, frame, health, monitor>>

NextTracker ==
    \/ PerformanceTrackerInit
    \/ \E n \in QueryNames, t \in {2}, r \in {100} : TrackQuery(n, t, r)

SpecTracker == InitTracker /\ [][NextTracker]_vars

-----------------------------------------------------------------------------
(* A function decorated with monitor_performance, called in one session.    *)
(* monitor.func is the decorated function, given by what a call does for    *)
(* each argument; monitor.debug_mode is st.session_state.debug_mode         *)

MonitorArgs == {1, 2}

\* what a call of a function does: it returns a value, or raises an
\* exception object whose class is a subclass of Exception, or one whose
\* class is not (KeyboardInterrupt, SystemExit, the exceptions Streamlit
\* raises for st.stop() and st.rerun())
FuncOutcomes == [kind : {"return", "Exception", "BaseException"}, value : {1, 2}]

Funcs == [MonitorArgs -> FuncOutcomes]

\* a wrapper that logs the failure and returns None
monitor_performance_swallow(func, debug_mode, args) ==
    LET Wrapper(r) ==
          IF r.kind = "return"
          THEN [kind |-> "return", value |-> r.value, called |-> <<args>>,
                log |-> <<"info">>, shown |-> IF debug_mode THEN {"timing"} ELSE {}]
          ELSE IF r.kind = "Exception"
          THEN [kind |-> "return", value |-> None, called |-> <<args>>,
                log |-> <<"error">>, shown |-> {}]
          ELSE [kind |-> r.kind, value |-> r.value, called |-> <<args>>,
                log |-> <<>>, shown |-> {}]
    IN Wrapper(func[args])

\* monitor_performance: the wrapper called with args.  called: the
\* arguments func was called with; log: the records written to the logger;
\* shown: the st.* messages of the wrapper itself
monitor_performance(func, debug_mode, args) ==
    LET Wrapper(r) ==
          IF r.kind = "return"
          THEN [kind |-> "return", value |-> r.value, called |-> <<args>>,
                log |-> <<"info">>, shown |-> IF debug_mode THEN {"timing"} ELSE {}]
          ELSE IF r.kind = "Exception"
          THEN [kind |-> r.kind, value |-> r.value, called |-> <<args>>,
                log |-> <<"error">>, shown |-> {}]
          ELSE [kind |-> r.kind, value |-> r.value, called |-> <<args>>,
                log |-> <<>>, shown |-> {}]
    IN Wrapper(func[args])

InitMonitor ==
    /\ configFile = [kind |-> "json", obj |-> ConfigObject(RequiredFields, <<>>)]
    /\ wh = [l \in Statements |-> 1]
    /\ InitServer
    /\ customers = <<>>
    /\ scored = <<>>
    /\ frame = <<>>
    /\ query_times = <<>>
    /\ health = <<>>
    /\ monitor = <<>>

\* `@monitor_performance` over a function definition
Decorate(func) ==
    /\ monitor = <<>>
    /\ monitor' = [func |-> func, debug_mode |-> <<>>]
    /\ last' = NoCall
    /\ UNCHANGED <<server, customers, scored, frame, query_times, health>>

\* enable_debug_mode: the 'Debug Mode' checkbox is read into
\* st.session_state.debug_mode
EnableDebugMode(checked) ==
    /\ monitor # <<>>
    /\ monitor.debug_mode # <<checked>>
    /\ monitor' = [monitor EXCEPT !.debug_mode = <<checked>>]
    /\ last' = NoCall
    /\ UNCHANGED <<server, customers, scored, frame, query_times, health>>

\* a call of the decorated function;
\* st.session_state.get('debug_mode', False) is False while the key is absent
WrappedCall(args) ==
    /\ monitor # <<>>
    /\ last' = [NoCall EXCEPT !.mp =
                   [invoked |-> TRUE, args |-> args,
                    ret |-> <<monitor_performance(monitor.func,
                                                  monitor.debug_mode = <<TRUE>>, args)>>]]
    /\ UNCHANGED <<server, apart>>

NextMonitor ==
    \/ \E func \in Funcs : Decorate(func)
    \/ \E checked \in BOOLEAN : EnableDebugMode(checked)
    \/ \E args \in MonitorArgs : WrappedCall(args)

SpecMonitor == InitMonitor /\ [][NextMonitor]_vars

-----------------------------------------------------------------------------
(* Properties *)

\* C1: execute_query never propagates an exception: whatever fails inside
\* it (no client, the warehouse call raising, the conversion raising), the
\* call returns normally, and it returns the empty dataframe.
C1_NeverPropagates ==
    last.q.invoked =>
        /\ ~last.q.raised
        /\ (last.q.fail # "none" => IsEmpty(last.q.ret))

C1_Witness ==
    /\ last.q.invoked /\ ~last.q.hit
    /\ last.q.fail = "convert"
    /\ IsEmpty(last.q.ret)

\* C2: an execution of execute_query that fails because the client is
\* unavailable or because the warehouse call raises shows a message to the
\* user during that invocation: the connection or configuration error for
\* the former, the query error for the latter.
ClientMessages ==
    {"connect_failed", "config_not_found", "config_invalid_json", "config_error"}

C2_FailureShown ==
    last.q.invoked /\ ~last.q.hit =>
        /\ (last.q.fail = "client" => last.q.msgs \cap ClientMessages # {})
        /\ (last.q.fail = "query" => "query_error" \in last.q.msgs)

C2_Witness ==
    /\ last.q.invoked /\ ~last.q.hit
    /\ last.q.fail = "client"
    /\ last.c.invoked /\ last.c.hit
    /\ "connect_failed" \in last.q.msgs

\* C3: no retry: one invocation of execute_query sends its query at most
\* once and sends nothing after the query has failed; one uncached
\* invocation of get_bigquery_client makes at most one connection attempt.
NoQueryAfterFailure(ev) ==
    \A i, j \in 1..Len(ev) : (ev[i] = "query_failed" /\ i < j) => ev[j] # "query"

C3_NoRetry ==
    /\ last.q.invoked =>
          Count(last.q.ev, "query") <= 1 /\ NoQueryAfterFailure(last.q.ev)
    /\ (last.c.invoked /\ ~last.c.hit) => Count(last.c.ev, "connect") <= 1

C3_Witness ==
    /\ last.q.invoked
    /\ last.q.fail = "query"
    /\ Count(last.q.ev, "query") = 1
    /\ last.q.ev[Len(last.q.ev)] = "query_failed"

\* C4: a call of execute_query that finds an entry for its arguments younger
\* than 3600 s returns that entry's dataframe and sends no query; a call
\* that finds none, or an older one, executes and stores its own result, and
\* when the older entry came from an execution it sends the query again.
C4_TTLMemo ==
    [][last'.q.invoked =>
         LET k == last'.q.key
             e == dataCache.query[k]
         IN IF e # <<>> /\ clock - e[1].at < TTL_QUERY
            THEN /\ last'.q.hit
                 /\ last'.q.ret = e[1].val
                 /\ Count(last'.q.ev, "query") = 0
            ELSE /\ ~last'.q.hit
                 /\ dataCache'.query[k] = <<[val |-> last'.q.ret,
                                             msgs |-> last'.q.msgs, at |-> clock]>>
                 /\ (e # <<>> /\ e[1].val.exec >= 0) =>
                        Count(last'.q.ev, "query") = 1]_vars

\* the customer query sent again at 3600 s, in a session that never clicked
\* a button, by the run that follows the run of time 0
C4_Witness ==
    /\ clock = TTL_QUERY
    /\ nextHandle = 1
    /\ ss[1].last_refresh = <<-1>>
    /\ dataCache.loader["geo"] # <<>> /\ dataCache.loader["geo"][1].at = 0
    /\ last.q.invoked /\ ~last.q.hit /\ last.q.key = "customer"
    /\ Count(last.q.ev, "query") = 1

\* C5: between two clears of the resource cache get_bigquery_client makes
\* at most one construction (with its 'SELECT 1' test) and every call
\* returns the same handle.
C5_ClientCached ==
    /\ epoch.constructed <= 1
    /\ Cardinality(epoch.returned) <= 1

\* a cached handle returned after a Clear Cache click and a new construction
C5_Witness ==
    /\ nextHandle = 2
    /\ epoch.constructed = 1
    /\ last.c.invoked /\ last.c.hit /\ last.c.ret = 2

\* C6: load_config never raises and returns {} or a configuration with
\* both required fields; a missing file, invalid JSON and a file lacking a
\* required field give {} with an error shown.
FileLoads(file) == file.kind = "json" /\ RequiredFields \subseteq DOMAIN file.obj

C6_LoadConfig ==
    last.cfg.invoked =>
        /\ ~last.cfg.raised
        /\ \/ last.cfg.ret = EmptyDict
           \/ RequiredFields \subseteq DOMAIN last.cfg.ret
        /\ ~FileLoads(configFile) =>
              last.cfg.ret = EmptyDict /\ last.cfg.msgs # {}
        /\ FileLoads(configFile) => last.cfg.ret = configFile.obj

C6_Witness ==
    /\ last.cfg.invoked
    /\ configFile.kind = "json"
    /\ DOMAIN configFile.obj = {"project_id", "recommended_tables"}
    /\ last.cfg.ret = EmptyDict

\* C7: get_available_tables never raises and returns the table_name of each
\* entry of recommended_tables in list order; the empty list when the key is
\* absent or the configuration did not load.
C7_AvailableTables ==
    last.tables.invoked =>
        /\ ~last.tables.raised
        /\ IF FileLoads(configFile) /\ "recommended_tables" \in DOMAIN configFile.obj
           THEN /\ Len(last.tables.ret) = Len(configFile.obj["recommended_tables"])
                /\ \A i \in 1..Len(last.tables.ret) :
                      last.tables.ret[i] =
                          configFile.obj["recommended_tables"][i].table_name
           ELSE last.tables.ret = <<>>

C7_Witness ==
    /\ last.tables.invoked
    /\ Len(last.tables.ret) = 2
    /\ last.tables.ret[1] # last.tables.ret[2]

\* C8 as stated: no page load obtains the outcome of a query that a page
\* load of another session executed.
C8_NonInteracting ==
    \A s \in Sessions, l \in Loaders :
        run[s].data[l] # <<>> => run[s].data[l][1].by \in {0, s}

\* C8 as amended: page loads share the caches and may obtain the cached
\* outcome of another session's execution, and nothing else: what a page load
\* obtains for a query is the outcome of an execution of that same query, by
\* some session, no later than now: the rows the warehouse holds for it or,
\* on failure, the empty dataframe.
C8_SharedCacheOnly ==
    \A s \in Sessions, l \in Loaders :
        run[s].data[l] # <<>> =>
            /\ run[s].data[l][1].q \in {"none", l}
            /\ run[s].data[l][1].rows \in {0, wh[l]}
            /\ run[s].data[l][1].q = l =>
                  /\ run[s].data[l][1].by \in Sessions
                  /\ run[s].data[l][1].exec <= clock

\* a page load obtains the failure of the other session's customer query
C8_Witness ==
    \E s \in Sessions :
        /\ run[s].data["customer"] # <<>>
        /\ run[s].data["customer"][1].by \notin {0, s}
        /\ run[s].data["customer"][1].rows = 0

\* C9: no step of the dashboard changes the warehouse (or the configuration
\* file): what changes is the caches and the sessions' state.
C9_ReadOnly == [][wh' = wh /\ configFile' = configFile]_vars

\* after a Refresh Data click and a Clear Cache click, a query has been sent
C9_Witness ==
    /\ nextHandle = 2
    /\ ss[1].last_refresh # <<>> /\ ss[1].last_refresh # <<-1>>
    /\ last.q.invoked /\ Count(last.q.ev, "query") = 1

\* C10: create_dashboard invokes the four loaders in the order customer,
\* order, review, geographic, whatever each returns, and then gives each
\* dataset its status: available exactly when its dataframe is not empty.
C10_DataStatus ==
    [][\A s \in Sessions :
          (pc[s] = "status" /\ pc'[s] = "idle") =>
              /\ run[s].invoked = LoaderOrder
              /\ run'[s].status =
                    <<[l \in Loaders |-> ~IsEmpty(run[s].data[l][1])]>>]_vars

\* C11: a config-dependent loader (the four of data_processing.py and
\* load_table_data) whose body runs calls load_config() before anything
\* else; when the configuration is empty it returns the empty dataframe and
\* sends no warehouse query, and a query it sends comes after the
\* configuration was read.
C11_ConfigFirst ==
    (last.l.invoked /\ ~last.l.hit) =>
        /\ ~last.l.raised
        /\ last.l.ev # <<>> /\ last.l.ev[1] = "load_config"
        /\ ~FileLoads(configFile) =>
              /\ last.l.ret = EmptyDF
              /\ Count(last.l.ev, "query") = 0
              /\ Count(last.l.ev, "connect") = 0

\* load_table_data under a file lacking dataset_id, with the configuration
\* cached: nothing is sent
C11_Witness ==
    /\ last.l.invoked /\ ~last.l.hit /\ last.l.name = "table"
    /\ configFile.kind = "json"
    /\ last.l.ev = <<"load_config">>
    /\ last.l.ret = EmptyDF

\* C12: an execution of get_order_analytics_data returns None or a dict
\* with exactly the four datasets order_data, monthly_data, category_data
\* and delivery_data; it returns None when the client is unavailable, when
\* the order statement selects no rows and when any of the four statements
\* raises; it never raises.
C12_AllOrNone ==
    (last.oa.invoked /\ ~last.oa.hit) =>
        /\ ~last.oa.raised
        /\ \/ last.oa.ret = NoneResult
           \/ /\ ~last.oa.ret.isNone
              /\ DOMAIN last.oa.ret.dict = Range(OrderStatements)
        /\ \/ last.oa.client = None
           \/ wh["order_data"] = 0
           \/ "order_analytics_error" \in last.oa.msgs
           => last.oa.ret = NoneResult

\* the third statement raises after two datasets were loaded
C12_Witness ==
    /\ last.oa.invoked /\ ~last.oa.hit
    /\ last.oa.client # None
    /\ Len(last.oa.ev) >= 3
    /\ last.oa.ev[Len(last.oa.ev)] = "category_data"
    /\ "order_analytics_error" \in last.oa.msgs
    /\ last.oa.ret = NoneResult

C15_RecencyScale ==
    last.seg # <<>> =>
        \A a, b \in 1..Len(last.seg[1]) :
            last.seg[1][a].last_order_date > last.seg[1][b].last_order_date =>
                last.seg[1][a].recency_score >= last.seg[1][b].recency_score

\* C16: every customer labelled 'Champions' has monetary_score >= 4,
\* frequency_score >= 4 and recency_score >= 4.
C16_Champions ==
    last.segment = <<"Champions">> =>
        /\ scored.monetary_score >= 4
        /\ scored.frequency_score >= 4
        /\ scored.recency_score >= 4

\* C17: every row gets exactly one of the eight documented segments: the
\* segment of the first rule, in the documented order, whose condition the
\* row meets, 'Regular Customers' when it meets none; a row labelled
\* 'One-Time Buyers' has total_orders = 1.
SegmentNames ==
    <<"Champions", "Loyal Customers", "Big Spenders", "New Customers",
      "Potential Loyalists", "At Risk", "One-Time Buyers", "Regular Customers">>

RuleMatches(k, r) ==
    CASE k = 1 -> r.monetary_score >= 4 /\ r.frequency_score >= 4
      [] k = 2 -> r.recency_score >= 4 /\ r.monetary_score >= 3
      [] k = 3 -> r.monetary_score >= 4 /\ r.frequency_score <= 2
      [] k = 4 -> r.recency_score >= 4 /\ r.monetary_score <= 2
      [] k = 5 -> r.frequency_score >= 3 /\ r.monetary_score >= 3
      [] k = 6 -> r.recency_score <= 2 /\ r.frequency_score >= 2
      [] k = 7 -> r.total_orders = 1
      [] k = 8 -> TRUE

C17_FirstMatch ==
    last.segment # <<>> =>
        /\ \E k \in 1..Len(SegmentNames) :
              /\ last.segment[1] = SegmentNames[k]
              /\ RuleMatches(k, scored)
              /\ \A j \in 1..(k - 1) : ~RuleMatches(j, scored)
        /\ last.segment[1] = "One-Time Buyers" => scored.total_orders = 1

\* a row that meets the conditions of 'Champions', 'Loyal Customers' and
\* 'One-Time Buyers' is labelled 'Champions'
C17_Witness ==
    /\ last.segment = <<"Champions">>
    /\ RuleMatches(2, scored)
    /\ RuleMatches(7, scored)

\* C18 as stated: a check returns False exactly when the client is
\* unavailable or its query raises, and True otherwise.
C18_FalseIffClientOrQuery ==
    health # <<>> =>
        \A i \in 1..Len(health.checks) :
            health.results[i] = ~(health.checks[i].why \in {"client", "query"})

\* C18 as amended: the script runs the three checks in the order order,
\* review, geographic, whatever the earlier ones returned; a check returns
\* False exactly when the client is unavailable or an exception is raised
\* inside its try block: by the query or by the printing of a result whose
\* aggregates are NULL; the report says 'All systems operational' exactly
\* when all three returned True and otherwise gives each check HEALTHY or
\* UNHEALTHY by its own result.
C18_HealthCheck ==
    health # <<>> =>
        /\ Len(health.checks) = Len(health.results)
        /\ \A i \in 1..Len(health.checks) :
              /\ health.checks[i].name = HealthChecks[i]
              /\ health.results[i] =
                    /\ health.checks[i].client # None
                    /\ health.checks[i].why \notin {"query", "print"}
              /\ health.checks[i].why = "client" <=> health.checks[i].client = None
              /\ health.checks[i].why = "print" =>
                    wh[HealthChecks[i]] = 0 /\ health.checks[i].client # None
        /\ health.report # <<>> =>
              /\ Len(health.results) = Len(HealthChecks)
              /\ health.report[1].operational =
                    (\A i \in 1..Len(HealthChecks) : health.results[i])
              /\ ~health.report[1].operational =>
                    \A i \in 1..Len(HealthChecks) :
                        health.report[1].lines[i] =
                            IF health.results[i] THEN "HEALTHY" ELSE "UNHEALTHY"

\* the first check fails printing the NULL aggregates of an empty table,
\* the other two run and pass, and the report lists them
C18_Witness ==
    /\ health # <<>> /\ health.report # <<>>
    /\ health.results = <<FALSE, TRUE, TRUE>>
    /\ health.checks[1].why = "print"
    /\ ~health.report[1].operational
    /\ health.report[1].lines = <<"UNHEALTHY", "HEALTHY", "HEALTHY">>

RECURSIVE TrackedUnder(_, _)
TrackedUnder(calls, n) ==
    IF calls = <<>> THEN <<>>
    ELSE IF calls[Len(calls)].query_name = n
    THEN Append(TrackedUnder(SubSeq(calls, 1, Len(calls) - 1), n), calls[Len(calls)].entry)
    ELSE TrackedUnder(SubSeq(calls, 1, Len(calls) - 1), n)

HistoryOf(metrics, n) == IF n \in DOMAIN metrics THEN metrics[n] ELSE <<>>

C20_LastTen ==
    /\ [](query_times # <<>> =>
            \A n \in QueryNames :
               LET all == TrackedUnder(query_times.calls, n)
                   kept == HistoryOf(query_times.metrics, n)
                   k == Len(all)
               IN /\ Len(kept) <= 10
                  /\ Len(kept) = (IF k <= 10 THEN k ELSE 10)
                  /\ \A i \in 1..Len(kept) : kept[i] = all[k - Len(kept) + i])
    /\ [][query_times # <<>> =>
            \A n \in QueryNames :
               query_times'.calls[Len(query_times'.calls)].query_name # n =>
                   HistoryOf(query_times'.metrics, n) = HistoryOf(query_times.metrics, n)]_vars

\* twelve executions under one name: the history holds the third to the
\* twelfth
C20_Witness ==
    /\ query_times # <<>>
    /\ Len(query_times.calls) = 12
    /\ DOMAIN query_times.metrics = {"Order Performance"}
    /\ Len(query_times.metrics["Order Performance"]) = 10
    /\ query_times.metrics["Order Performance"][1].timestamp = 3
    /\ query_times.metrics["Order Performance"][10].timestamp = 12

\* C21: a dataframe returned by a ttl=1800 loader built on execute_query
\* comes from a warehouse query executed at most 1800 s earlier.
C21_LoaderFresh ==
    (last.l.invoked /\ last.l.name \in Loaders /\ last.l.ret.exec >= 0) =>
        clock - last.l.ret.exec <= TTL_LOADER

\* C22: a failed execution is memoized like a successful one: an execution
\* of execute_query whose warehouse call raised stores the empty dataframe
\* under its arguments, and every call with the same arguments that finds
\* that entry (less than 3600 s later, no clear of the data cache in
\* between) returns the empty dataframe and contacts neither the warehouse
\* nor the client, whatever the warehouse would answer now.
C22_FailureMemoized ==
    [][last'.q.invoked =>
         LET k == last'.q.key
             e == dataCache.query[k]
         IN /\ (~last'.q.hit /\ last'.q.fail = "query") =>
                  /\ IsEmpty(last'.q.ret)
                  /\ dataCache'.query[k] # <<>>
                  /\ dataCache'.query[k][1].val = last'.q.ret
                  /\ dataCache'.query[k][1].at = clock
                  /\ "query_error" \in dataCache'.query[k][1].msgs
            /\ (e # <<>> /\ "query_error" \in e[1].msgs
                  /\ clock - e[1].at < TTL_QUERY) =>
                  /\ last'.q.hit
                  /\ last'.q.ret = e[1].val
                  /\ IsEmpty(last'.q.ret)
                  /\ last'.q.ev = <<>>
                  /\ wh' = wh]_vars

\* the failure of the customer query of time 0 served at 2700 s, when the
\* loader's own entry has expired
C22_Witness ==
    /\ clock = 3 * TickLen
    /\ last.l.invoked /\ last.l.name = "customer" /\ ~last.l.hit
    /\ last.q.invoked /\ last.q.hit
    /\ "query_error" \in last.q.msgs
    /\ IsEmpty(last.q.ret) /\ last.q.ret.exec = 0
    /\ wh["customer"] = 1

\* C23: a failed connection is cached: once get_bigquery_client has
\* returned None the resource cache holds None, and every later call returns
\* None without a connection attempt for as long as the resource cache is
\* not cleared; a connection attempt is made only with the resource cache
\* empty, the resource cache is emptied only by the 'Clear Cache' handler,
\* and a 'Refresh Data' click leaves it as it is: neither the handler nor
\* the rerun it starts makes a connection attempt.
CachedNone == resourceCache # <<>> /\ resourceCache[1].val = None

C23_FailedConnectionCached ==
    /\ [](last.c.invoked /\ last.c.ret = None => CachedNone)
    /\ [][/\ (CachedNone /\ last'.c.invoked) =>
                /\ last'.c.hit
                /\ last'.c.ret = None
                /\ Count(last'.c.ev, "connect") = 0
          /\ Count(last'.c.ev, "connect") > 0 => resourceCache = <<>>
          /\ (resourceCache # <<>> /\ resourceCache' # resourceCache) =>
                /\ resourceCache' = <<>>
                /\ \E s \in Sessions : pc[s] = "sidebar" /\ click[s] = "clear"
          /\ \A s \in Sessions :
                /\ (pc[s] = "sidebar" /\ click[s] = "refresh") =>
                      resourceCache' = resourceCache
                /\ run[s].rerun => Count(last'.c.ev, "connect") = 0]_vars

\* after a Clear Cache click the new connection attempt failed; the next
\* run, 900 s later, is served the cached None and ends at the connection
\* check
C23_Witness ==
    /\ nextHandle = 1
    /\ clock = TickLen
    /\ CachedNone
    /\ last.c.invoked /\ last.c.hit /\ last.c.ret = None
    /\ run[1].outcome = "connection_error"
    /\ ~buttons[1]

\* C24: the connection check of main() gates everything after it: when
\* get_bigquery_client returns None the run ends there with the connection
\* error on the page; create_sidebar and create_dashboard are not invoked
\* (the page has no 'Refresh Data' / 'Clear Cache' button, no loader runs,
\* no query is sent, the data cache and st.session_state stay as
\* initialize_session_state left them); create_sidebar and the loaders are
\* only ever reached by a run whose connection check obtained a client.
InDashboard(p) == p \in {"sidebar", "status"} \cup Loaders

C24_ConnectionGate ==
    [][\A s \in Sessions :
          /\ (pc[s] = "main" /\ pc'[s] # "main" /\ last'.c.ret = None) =>
                /\ pc'[s] = "idle"
                /\ run'[s].outcome = "connection_error"
                /\ run'[s].invoked = <<>>
                /\ ~buttons'[s]
                /\ ~last'.l.invoked /\ ~last'.q.invoked
                /\ Count(last'.c.ev, "query") = 0
                /\ dataCache'.query = dataCache.query
                /\ dataCache'.loader = dataCache.loader
                /\ wh' = wh
                /\ ss'[s] = initialize_session_state(ss[s])
          /\ (InDashboard(pc'[s]) /\ ~InDashboard(pc[s])) =>
                /\ pc[s] = "main" /\ pc'[s] = "sidebar"
                /\ last'.c.invoked /\ last'.c.ret # None
          /\ (last'.l.invoked \/ last'.q.invoked) /\ pc'[s] # pc[s] =>
                pc[s] \in Loaders]_vars

\* a run ends at the connection check, served the None that was cached
\* when the connection attempt after a 'Clear Cache' click failed
C24_Witness ==
    /\ run[1].outcome = "connection_error"
    /\ pc[1] = "idle"
    /\ ~buttons[1]
    /\ last.c.invoked /\ last.c.ret = None
    /\ ss[1].last_refresh = <<-1>>
    /\ dataCache.query["customer"] # <<>>
    /\ nextHandle = 1

\* C25: an execution of get_order_analytics_data that has a client sends
\* its statements in the order order, monthly, category, delivery, each at
\* most once and each after the one before it returned: what it sends is a
\* prefix of that list, starting with the order statement.  The statements
\* after the order statement are not sent when it selects no rows, no
\* statement is sent after one that raised, and otherwise all four are sent.
StatementsSent(ev) ==
    LET IsStatement(e) == e \in Range(OrderStatements)
    IN SelectSeq(ev, IsStatement)

C25_StatementOrder ==
    (last.oa.invoked /\ ~last.oa.hit) =>
        LET sent == StatementsSent(last.oa.ev)
            n == Len(sent)
            Raises(i) == last.oa.oq[OrderStatements[i]] = "raise"
        IN /\ n <= Len(OrderStatements)
           /\ sent = SubSeq(OrderStatements, 1, n)
           /\ last.oa.client = None <=> n = 0
           /\ \A i \in 1..n : Raises(i) => n = i
           /\ (n >= 1 /\ ~Raises(1) /\ wh["order_data"] = 0) => n = 1
           /\ (n >= 1 /\ wh["order_data"] # 0
                 /\ \A i \in 1..Len(OrderStatements) : ~Raises(i)) =>
                 n = Len(OrderStatements)

\* the category statement raises: the delivery statement, which would have
\* succeeded, is not sent
C25_Witness ==
    /\ last.oa.invoked /\ ~last.oa.hit
    /\ StatementsSent(last.oa.ev) = <<"order_data", "monthly_data", "category_data">>
    /\ last.oa.oq["category_data"] = "raise"
    /\ last.oa.oq["delivery_data"] = "ok"

\* C26: data_loaded is False in every session state once
\* initialize_session_state has run: the key is absent until the first run
\* of main() and no step (page load, 'Refresh Data', 'Clear Cache', the end
\* of data loading) gives it another value than False.
C26_DataLoadedFalse ==
    /\ [](\A s \in Sessions :
             /\ ss[s].data_loaded \in {<<>>, <<FALSE>>}
             /\ ss[s].data_loaded = <<>> => ss[s].last_refresh = <<>> /\ ~buttons[s])
    /\ [][\A s \in Sessions :
             /\ pc[s] = "main" /\ pc'[s] # "main" => ss'[s].data_loaded = <<FALSE>>
             /\ ss[s].data_loaded # <<>> => ss'[s].data_loaded = <<FALSE>>]_vars

\* after a 'Refresh Data' click, a 'Clear Cache' click and a run that came
\* to the end of its data loading
C26_Witness ==
    /\ nextHandle = 2
    /\ ss[1].last_refresh # <<>> /\ ss[1].last_refresh # <<-1>>
    /\ pc[1] = "idle"
    /\ run[1].outcome \notin {"running", "connection_error", "rerun"}
    /\ dataCache.loader["geo"] # <<>>
    /\ ss[1].data_loaded = <<FALSE>>

\* C27: the scores are a function of the metric they rank: in the result
\* of the segmentation statement any two customers with equal total_orders
\* have equal frequency_score, and any two with equal total_spent have
\* equal monetary_score.
C27_ScoresFollowMetric ==
    last.seg # <<>> =>
        \A i, j \in DOMAIN last.seg[1] :
            /\ last.seg[1][i].total_orders = last.seg[1][j].total_orders =>
                  last.seg[1][i].frequency_score = last.seg[1][j].frequency_score
            /\ last.seg[1][i].total_spent = last.seg[1][j].total_spent =>
                  last.seg[1][i].monetary_score = last.seg[1][j].monetary_score

\* C28 as stated: a call of the wrapper returns what the wrapped function
\* returns for the same arguments and, when the wrapped function raises,
\* raises the same exception after having logged it.
C28_Transparent ==
    last.mp.invoked =>
        LET Same(f, w) ==
              /\ w.called = <<last.mp.args>>
              /\ w.kind = f.kind /\ w.value = f.value
              /\ f.kind # "return" => w.log = <<"error">>
        IN Same(monitor.func[last.mp.args], last.mp.ret[1])

\* C28 as amended: a call of the wrapper calls the wrapped function once
\* with its own arguments, returns what it returns and raises what it
\* raises: no exception is swallowed or replaced.  An exception whose class
\* derives from Exception is logged before it propagates; one whose class
\* does not (KeyboardInterrupt, SystemExit, Streamlit's stop and rerun
\* exceptions) propagates without a log record.  A return is logged, and
\* shown on the page in debug mode.
C28_Propagates ==
    last.mp.invoked =>
        LET Same(f, w) ==
              /\ w.called = <<last.mp.args>>
              /\ w.kind = f.kind /\ w.value = f.value
              /\ f.kind = "Exception" => w.log = <<"error">> /\ w.shown = {}
              /\ f.kind = "BaseException" => w.log = <<>> /\ w.shown = {}
              /\ f.kind = "return" =>
                    /\ w.log = <<"info">>
                    /\ w.shown = IF monitor.debug_mode = <<TRUE>> THEN {"timing"} ELSE {}
        IN Same(monitor.func[last.mp.args], last.mp.ret[1])

\* in debug mode, a function that returns for one argument and raises for
\* the other is called with the one it raises for
C28_Witness ==
    /\ last.mp.invoked /\ last.mp.args = 2
    /\ monitor.debug_mode = <<TRUE>>
    /\ monitor.func[1].kind = "return"
    /\ monitor.func[2] = [kind |-> "Exception", value |-> 2]
    /\ last.mp.ret[1].kind = "Exception" /\ last.mp.ret[1].value = 2
    /\ last.mp.ret[1].log = <<"error">>

====
